---- MODULE Spec2Model ----
(***************************************************************************)
(* Model of sunshine_hdr_helper: the display enumeration of                *)
(* displays_info.rs, the mode change of change_display_mode.rs, the SDR    *)
(* white level request of set_sdr_level.rs and the ICC profile association *)
(* of change_icc_profile.rs.                                               *)
(*                                                                         *)
(* The program keeps no state between invocations.  The state of the model *)
(* is the display topology the operating system reports (legacy ports and  *)
(* modern paths) and the record of the last invocation: its arguments, the *)
(* values it read, the OS calls it made in order, and its result.  The     *)
(* answers the OS gives during an invocation (result codes, mode lists,    *)
(* profile lists) are drawn where the code makes the call.                 *)
(***************************************************************************)
EXTENDS Integers, Sequences, FiniteSets, TLC

(***************************************************************************)
(* Bounds of the model.                                                    *)
(***************************************************************************)
\* legacy ports EnumDisplayDevicesW reports
MaxPorts == 2
\* active paths QueryDisplayConfig reports
MaxPaths == 2
\* modes the primary device reports in an invocation of a command
MaxModes == 1
\* modes a device reports to get_supported_modes called on its own
MaxReported == 4
\* profiles EnumICMProfilesW hands to the callback
MaxProfiles == 1
\* how far above the accepted range the requested SDR levels go
LevelsAbove == 2

(***************************************************************************)
(* Constants of the Windows API the code compares against.                 *)
(***************************************************************************)
DISPLAY_DEVICE_PRIMARY_DEVICE == 4
ERROR_SUCCESS == 0
ERROR_INSUFFICIENT_BUFFER == 122
ERROR_GEN_FAILURE == 31
DISP_CHANGE_SUCCESSFUL == 0
DISP_CHANGE_RESTART == 1
DISP_CHANGE_FAILED == -1
DISP_CHANGE_BADMODE == -2
DISP_CHANGE_NOTUPDATED == -3
\* set_sdr_level.rs: level > 100 is rejected
MaxSdrLevel == 100

(***************************************************************************)
(* Values the OS can report.                                               *)
(***************************************************************************)
\* StateFlags: 0 (nothing attached), attached to the desktop, attached and primary
StateFlagValues == {0, 1, 5}
\* one legacy port: its StateFlags and whether its current-settings query
\* succeeds (the code never asks for a port without flags)
LegacyPort ==
    {[flags |-> 0, settingsOk |-> TRUE]} \cup [flags : StateFlagValues \ {0}, settingsOk : BOOLEAN]
SourceIds == 0 .. 1
\* the LUID of the one graphics adapter
AdapterLuid == 1
\* one active path: sourceInfo.id, the adapter LUID, targetInfo.id; every
\* active path has a target of its own, here numbered by its position
PathInfo(srcId, k) == [srcId |-> srcId, adapterId |-> AdapterLuid, tgtId |-> k]
\* the zero LUID given to a device that matches no path
ZeroLuid == 0
QueryResults == {ERROR_SUCCESS, ERROR_INSUFFICIENT_BUFFER, ERROR_GEN_FAILURE}
DispChangeResults ==
    {DISP_CHANGE_SUCCESSFUL, DISP_CHANGE_RESTART, DISP_CHANGE_FAILED,
     DISP_CHANGE_BADMODE, DISP_CHANGE_NOTUPDATED}

Mode(w, h, r) == [width |-> w, height |-> h, refresh_rate |-> r]
\* display modes: ties on width, and on width and height
DisplayModes ==
    {Mode(1920, 1080, 120), Mode(1920, 1080, 60), Mode(1920, 720, 120), Mode(1280, 1080, 120)}

\* one read-only OS call and what it answered (a BOOL answer as 1 or 0)
Call(api, res) == [api |-> api, res |-> res]

SeqsUpTo(S, n) == UNION {[1 .. k -> S] : k \in 0 .. n}

\* (state_flags & DISPLAY_DEVICE_PRIMARY_DEVICE) != 0
HasPrimaryFlag(state_flags) == (state_flags \div DISPLAY_DEVICE_PRIMARY_DEVICE) % 2 = 1

\* Windows marks at most one device as the primary one
PrimaryPorts(ports) == {i \in 1 .. Len(ports) : HasPrimaryFlag(ports[i].flags)}
LegacyLists == {ports \in SeqsUpTo(LegacyPort, MaxPorts) : Cardinality(PrimaryPorts(ports)) <= 1}
PathLists ==
    {[k \in DOMAIN f |-> PathInfo(f[k], k)] : f \in SeqsUpTo(SourceIds, MaxPaths)}

VARIABLES
    legacy,     \* OS: the legacy ports, port of index i at position i + 1
    paths,      \* OS: the active paths
    op,         \* the operation last invoked
    args,       \* its arguments
    ret,        \* its result: TRUE is success / Ok / Some
    displays,   \* the list its enumerate_displays call returned
    reported,   \* the modes the OS reported by index to get_supported_modes
    modes,      \* the catalog get_supported_modes returned
    profiles,   \* the profiles get_display_icc_profiles returned
    calls,      \* the read-only OS calls of the invocation, in order
    modeCalls,  \* the ChangeDisplaySettingsExW calls of the invocation
    sdrCalls,   \* the DisplayConfigSetDeviceInfo calls of the invocation
    iccCalls,   \* the ColorProfileSetDisplayDefaultAssociation calls of the invocation
    exitCode    \* the exit status of the process

vars == <<legacy, paths, op, args, ret, displays, reported, modes, profiles,
          calls, modeCalls, sdrCalls, iccCalls, exitCode>>

(***************************************************************************)
(* displays_info.rs                                                        *)
(***************************************************************************)
NoDisplayAttached_never(state_flags) == FALSE

\* line 191: a port with no flags has no display attached
NoDisplayAttached(state_flags) == state_flags = 0

IsPrimary_attached(state_flags) == state_flags # 0

\* line 210
IsPrimary(state_flags) == HasPrimaryFlag(state_flags)

FindPath_position(path_info, device_index, k) ==
    IF device_index + 1 <= Len(path_info)
    THEN [adapter_id |-> path_info[device_index + 1].adapterId,
          source_id |-> path_info[device_index + 1].srcId]
    ELSE [adapter_id |-> ZeroLuid, source_id |-> 0]

\* lines 213-216: the first path whose source id equals the device index,
\* else the zero LUID and source id 0
RECURSIVE FindPath(_, _, _)
FindPath(path_info, device_index, k) ==
    IF k > Len(path_info) THEN [adapter_id |-> ZeroLuid, source_id |-> 0]
    ELSE IF path_info[k].srcId = device_index
         THEN [adapter_id |-> path_info[k].adapterId, source_id |-> path_info[k].srcId]
         ELSE FindPath(path_info, device_index, k + 1)

\* lines 218-228; the device name is \\.\DISPLAY<index + 1>
DisplayDevice(device_index, state_flags, path_info) ==
    LET m == FindPath(path_info, device_index, 1) IN
    [device_index |-> device_index,
     device_name |-> device_index + 1,
     state_flags |-> state_flags,
     is_primary |-> IsPrimary(state_flags),
     adapter_id |-> m.adapter_id,
     source_id |-> m.source_id]

RECURSIVE EnumLoop_fatal(_, _, _)
EnumLoop_fatal(ports, path_info, device_index) ==
    IF device_index >= Len(ports)
    THEN [displays |-> <<>>, calls |-> <<Call("EnumDisplayDevicesW", 0)>>]
    ELSE LET dev == ports[device_index + 1]
             rest == EnumLoop_fatal(ports, path_info, device_index + 1)
         IN  IF NoDisplayAttached(dev.flags)
             THEN [displays |-> rest.displays,
                   calls |-> <<Call("EnumDisplayDevicesW", 1)>> \o rest.calls]
             ELSE IF dev.settingsOk
             THEN [displays |-> <<DisplayDevice(device_index, dev.flags, path_info)>>
                                 \o rest.displays,
                   calls |-> <<Call("EnumDisplayDevicesW", 1), Call("EnumDisplaySettingsW", 1)>>
                             \o rest.calls]
             ELSE [displays |-> <<>>,
                   calls |-> <<Call("EnumDisplayDevicesW", 1), Call("EnumDisplaySettingsW", 0)>>]

\* lines 158-248: the loop over the legacy indices
RECURSIVE EnumLoop(_, _, _)
EnumLoop(ports, path_info, device_index) ==
    IF device_index >= Len(ports)
    THEN [displays |-> <<>>, calls |-> <<Call("EnumDisplayDevicesW", 0)>>]
    ELSE LET dev == ports[device_index + 1]
             rest == EnumLoop(ports, path_info, device_index + 1)
         IN  IF NoDisplayAttached(dev.flags)
             THEN [displays |-> rest.displays,
                   calls |-> <<Call("EnumDisplayDevicesW", 1)>> \o rest.calls]
             ELSE IF dev.settingsOk
             THEN [displays |-> <<DisplayDevice(device_index, dev.flags, path_info)>>
                                 \o rest.displays,
                   calls |-> <<Call("EnumDisplayDevicesW", 1), Call("EnumDisplaySettingsW", 1)>>
                             \o rest.calls]
             ELSE [displays |-> rest.displays,
                   calls |-> <<Call("EnumDisplayDevicesW", 1), Call("EnumDisplaySettingsW", 0)>>
                             \o rest.calls]

enumerate_displays_unchecked(ports, os_paths, bufRes, qdcRes) ==
    IF bufRes # ERROR_SUCCESS
    THEN [displays |-> <<>>, calls |-> <<Call("GetDisplayConfigBufferSizes", bufRes)>>]
    ELSE LET l == EnumLoop(ports, IF qdcRes = ERROR_SUCCESS THEN os_paths ELSE <<>>, 0) IN
         [displays |-> l.displays,
          calls |-> <<Call("GetDisplayConfigBufferSizes", bufRes),
                      Call("QueryDisplayConfig", qdcRes)>> \o l.calls]

\* lines 106-251
enumerate_displays(ports, os_paths, bufRes, qdcRes) ==
    IF bufRes # ERROR_SUCCESS
    THEN [displays |-> <<>>, calls |-> <<Call("GetDisplayConfigBufferSizes", bufRes)>>]
    ELSE IF qdcRes # ERROR_SUCCESS
    THEN [displays |-> <<>>,
          calls |-> <<Call("GetDisplayConfigBufferSizes", bufRes),
                      Call("QueryDisplayConfig", qdcRes)>>]
    ELSE LET l == EnumLoop(ports, os_paths, 0) IN
         [displays |-> l.displays,
          calls |-> <<Call("GetDisplayConfigBufferSizes", bufRes),
                      Call("QueryDisplayConfig", qdcRes)>> \o l.calls]

ModeBefore_refresh_first(a, b) ==
    \/ b.width < a.width
    \/ b.width = a.width /\ b.refresh_rate < a.refresh_rate
    \/ b.width = a.width /\ b.refresh_rate = a.refresh_rate /\ b.height < a.height

\* lines 80-84: the comparator of sort_by, TRUE when a sorts before b
ModeBefore(a, b) ==
    \/ b.width < a.width
    \/ b.width = a.width /\ b.height < a.height
    \/ b.width = a.width /\ b.height = a.height /\ b.refresh_rate < a.refresh_rate

\* lines 48-77: the HashSet the reported modes are inserted into
ModeSet(os_modes) == {os_modes[i] : i \in 1 .. Len(os_modes)}

\* lines 79-84: the set collected in some order and sorted with the comparator
RECURSIVE SortModes(_)
SortModes(S) ==
    IF S = {} THEN <<>>
    ELSE LET first == CHOOSE a \in S : \A b \in S : ~ModeBefore(b, a)
         IN  <<first>> \o SortModes(S \ {first})

\* lines 47-86
get_supported_modes(os_modes) == SortModes(ModeSet(os_modes))

\* lines 51-77: one EnumDisplaySettingsW call per reported mode and the one that fails
RECURSIVE Repeat(_, _)
Repeat(x, n) == IF n = 0 THEN <<>> ELSE <<x>> \o Repeat(x, n - 1)
SupportedModesCalls(os_modes) ==
    Repeat(Call("EnumDisplaySettingsW", 1), Len(os_modes)) \o <<Call("EnumDisplaySettingsW", 0)>>

\* Iterator::find over records with an is_primary field: the first position
\* from k on that holds one marked primary, 0 if there is none
RECURSIVE FirstPrimaryFrom(_, _)
FirstPrimaryFrom(ds, k) ==
    IF k > Len(ds) THEN 0
    ELSE IF ds[k].is_primary THEN k ELSE FirstPrimaryFrom(ds, k + 1)

FindPrimary_first(ds) == IF Len(ds) > 0 THEN 1 ELSE 0

\* line 93 (and set_sdr_level.rs line 173): find(|d| d.is_primary)
FindPrimary(ds) == FirstPrimaryFrom(ds, 1)

NoDevice ==
    [device_index |-> 0, device_name |-> 0, state_flags |-> 0, is_primary |-> FALSE,
     adapter_id |-> ZeroLuid, source_id |-> 0]

\* lines 90-104; os_modes is what the OS reports for the primary device's name
get_primary_display_info(ports, os_paths, bufRes, qdcRes, os_modes) ==
    LET e == enumerate_displays(ports, os_paths, bufRes, qdcRes)
        k == FindPrimary(e.displays)
    IN  IF k # 0
        THEN [found |-> TRUE, primary |-> e.displays[k], modes |-> get_supported_modes(os_modes),
              reported |-> os_modes, displays |-> e.displays,
              calls |-> e.calls \o SupportedModesCalls(os_modes)]
        ELSE [found |-> FALSE, primary |-> NoDevice, modes |-> <<>>,
              reported |-> <<>>, displays |-> e.displays, calls |-> e.calls]

(***************************************************************************)
(* change_display_mode.rs                                                  *)
(***************************************************************************)
ModeAccepted_always(unsafe_mode, supported_modes, width, height, refresh_rate) == TRUE

ModeAccepted_validated(unsafe_mode, supported_modes, width, height, refresh_rate) ==
    \E i \in 1 .. Len(supported_modes) :
        /\ supported_modes[i].width = width
        /\ supported_modes[i].height = height
        /\ supported_modes[i].refresh_rate = refresh_rate

\* lines 31-35: the requested mode may go to the OS
ModeAccepted(unsafe_mode, supported_modes, width, height, refresh_rate) ==
    ~(~unsafe_mode /\ ~(\E i \in 1 .. Len(supported_modes) :
                            /\ supported_modes[i].width = width
                            /\ supported_modes[i].height = height
                            /\ supported_modes[i].refresh_rate = refresh_rate))

ChangeSucceeded_restart(result) == result >= DISP_CHANGE_SUCCESSFUL

\* lines 66-83: the match on the result code
ChangeSucceeded(result) == result = DISP_CHANGE_SUCCESSFUL

\* lines 21-85; info is what get_primary_display_info returned, cdsRes the
\* answer of ChangeDisplaySettingsExW
change_primary_display_mode(width, height, refresh_rate, unsafe_mode, info, cdsRes) ==
    IF ~info.found
    THEN [ok |-> FALSE, modeCalls |-> <<>>]
    ELSE IF ~ModeAccepted(unsafe_mode, info.modes, width, height, refresh_rate)
    THEN [ok |-> FALSE, modeCalls |-> <<>>]
    ELSE [ok |-> ChangeSucceeded(cdsRes),
          modeCalls |-> <<[device_name |-> info.primary.device_name,
                           width |-> width, height |-> height,
                           refresh_rate |-> refresh_rate, res |-> cdsRes]>>]

(***************************************************************************)
(* set_sdr_level.rs                                                        *)
(***************************************************************************)
RECURSIVE is_primary_display_attached(_, _)
is_primary_display_attached(ports, device_index) ==
    IF device_index >= Len(ports)
    THEN [res |-> FALSE, calls |-> <<Call("EnumDisplayDevicesW", 0)>>]
    ELSE IF ports[device_index + 1].flags # 0
    THEN [res |-> TRUE, calls |-> <<Call("EnumDisplayDevicesW", 1)>>]
    ELSE LET rest == is_primary_display_attached(ports, device_index + 1) IN
         [res |-> rest.res, calls |-> <<Call("EnumDisplayDevicesW", 1)>> \o rest.calls]

\* lines 61-75: the scan of the legacy ports for a primary flag
RECURSIVE is_primary_display(_, _)
is_primary_display(ports, device_index) ==
    IF device_index >= Len(ports)
    THEN [res |-> FALSE, calls |-> <<Call("EnumDisplayDevicesW", 0)>>]
    ELSE IF HasPrimaryFlag(ports[device_index + 1].flags)
    THEN [res |-> TRUE, calls |-> <<Call("EnumDisplayDevicesW", 1)>>]
    ELSE LET rest == is_primary_display(ports, device_index + 1) IN
         [res |-> rest.res, calls |-> <<Call("EnumDisplayDevicesW", 1)>> \o rest.calls]

\* lines 122-130: one DisplayInfo per path
RECURSIVE SdrDisplayInfos(_, _, _)
SdrDisplayInfos(ports, os_paths, k) ==
    IF k > Len(os_paths) THEN [displays |-> <<>>, calls |-> <<>>]
    ELSE LET p == is_primary_display(ports, 0)
             rest == SdrDisplayInfos(ports, os_paths, k + 1)
         IN  [displays |-> <<[path_info |-> os_paths[k], is_primary |-> p.res]>>
                           \o rest.displays,
              calls |-> p.calls \o rest.calls]

\* lines 78-133: enumerate_displays of set_sdr_level.rs; qdcRes and qdcRes2 are
\* the answers of the first and of the repeated QueryDisplayConfig
sdr_enumerate_displays(ports, os_paths, bufRes, qdcRes, qdcRes2) ==
    IF bufRes # ERROR_SUCCESS
    THEN [ok |-> FALSE, displays |-> <<>>,
          calls |-> <<Call("GetDisplayConfigBufferSizes", bufRes)>>]
    ELSE LET retried == qdcRes = ERROR_INSUFFICIENT_BUFFER
             result == IF retried THEN qdcRes2 ELSE qdcRes
             qcalls == <<Call("GetDisplayConfigBufferSizes", bufRes),
                         Call("QueryDisplayConfig", qdcRes)>>
                       \o (IF retried THEN <<Call("QueryDisplayConfig", qdcRes2)>> ELSE <<>>)
         IN  IF result # ERROR_SUCCESS
             THEN [ok |-> FALSE, displays |-> <<>>, calls |-> qcalls]
             ELSE LET d == SdrDisplayInfos(ports, os_paths, 1) IN
                  [ok |-> TRUE, displays |-> d.displays, calls |-> qcalls \o d.calls]

api_value_step(level) == 1000 + (level * 60)

\* line 141
api_value(level) == 1000 + (level * 50)

\* lines 139-160; setRes is the answer of DisplayConfigSetDeviceInfo
set_sdr_white_level(path_info, level, setRes) ==
    [ok |-> setRes = ERROR_SUCCESS,
     sdrCalls |-> <<[type |-> -18, adapterId |-> path_info.adapterId, id |-> path_info.tgtId,
                     sdr_white_level |-> api_value(level), final_value |-> 1,
                     res |-> setRes]>>]

LevelRejected_late(level) == level > MaxSdrLevel + 1

\* line 166
LevelRejected(level) == level > MaxSdrLevel

\* lines 165-178
set_primary_display_sdr_white(level, ports, os_paths, bufRes, qdcRes, qdcRes2, setRes) ==
    IF LevelRejected(level)
    THEN [ok |-> FALSE, calls |-> <<>>, sdrCalls |-> <<>>]
    ELSE LET e == sdr_enumerate_displays(ports, os_paths, bufRes, qdcRes, qdcRes2)
             k == FindPrimary(e.displays)
         IN  IF ~e.ok THEN [ok |-> FALSE, calls |-> e.calls, sdrCalls |-> <<>>]
             ELSE IF k # 0
             THEN LET r == set_sdr_white_level(e.displays[k].path_info, level, setRes) IN
                  [ok |-> r.ok, calls |-> e.calls, sdrCalls |-> r.sdrCalls]
             ELSE [ok |-> FALSE, calls |-> e.calls, sdrCalls |-> <<>>]

(***************************************************************************)
(* change_icc_profile.rs                                                   *)
(***************************************************************************)
\* lines 43-47: the file name of a path given as its components, "unknown"
\* when the path has none
file_name(path) ==
    IF Len(path) = 0 \/ path[Len(path)] = ".." THEN "unknown" ELSE path[Len(path)]

\* lines 39-53: the callback, once per profile the OS hands over
RECURSIVE enum_profiles_callback(_, _)
enum_profiles_callback(icm, k) ==
    IF k > Len(icm) THEN <<>>
    ELSE <<[name |-> file_name(icm[k]), path |-> icm[k]]>> \o enum_profiles_callback(icm, k + 1)

get_display_icc_profiles_leak(display, dcValid, icm, enumRes) ==
    IF ~dcValid
    THEN [profiles |-> <<>>, calls |-> <<Call("CreateDCW", 0)>>]
    ELSE [profiles |-> enum_profiles_callback(icm, 1),
          calls |-> <<Call("CreateDCW", 1), Call("EnumICMProfilesW", enumRes)>>
                    \o (IF enumRes = 0 THEN <<>> ELSE <<Call("DeleteDC", 1)>>)]

\* lines 22-72; dcValid: CreateDCW gave a valid context, icm: the profile paths
\* the OS hands to the callback, enumRes: the result of EnumICMProfilesW
get_display_icc_profiles(display, dcValid, icm, enumRes) ==
    IF ~dcValid
    THEN [profiles |-> <<>>, calls |-> <<Call("CreateDCW", 0)>>]
    ELSE [profiles |-> enum_profiles_callback(icm, 1),
          calls |-> <<Call("CreateDCW", 1), Call("EnumICMProfilesW", enumRes),
                      Call("DeleteDC", 1)>>]

\* Iterator::find by name: the first position from k on, 0 if there is none
RECURSIVE FirstNamedFrom(_, _, _)
FirstNamedFrom(available_profiles, profile_name, k) ==
    IF k > Len(available_profiles) THEN 0
    ELSE IF available_profiles[k].name = profile_name THEN k
         ELSE FirstNamedFrom(available_profiles, profile_name, k + 1)

FindProfile_or_first(available_profiles, profile_name) ==
    IF FirstNamedFrom(available_profiles, profile_name, 1) # 0
    THEN FirstNamedFrom(available_profiles, profile_name, 1)
    ELSE IF Len(available_profiles) > 0 THEN 1 ELSE 0

\* line 83: find(|p| p.name == profile_name)
FindProfile(available_profiles, profile_name) ==
    FirstNamedFrom(available_profiles, profile_name, 1)

\* lines 78-116; assocOk: ColorProfileSetDisplayDefaultAssociation succeeded
set_display_icc_profile(display, profile_name, dcValid, icm, enumRes, assocOk) ==
    LET l == get_display_icc_profiles(display, dcValid, icm, enumRes)
        k == FindProfile(l.profiles, profile_name)
    IN  IF k = 0
        THEN [ok |-> FALSE, profiles |-> l.profiles, calls |-> l.calls, iccCalls |-> <<>>]
        ELSE [ok |-> assocOk, profiles |-> l.profiles, calls |-> l.calls,
              iccCalls |-> <<[profile |-> l.profiles[k].path,
                              adapter_id |-> display.adapter_id,
                              source_id |-> display.source_id,
                              res |-> assocOk]>>]

\* lines 137-149
change_primary_display_icc_profile(profile_name, info, dcValid, icm, enumRes, assocOk) ==
    IF info.found
    THEN LET r == set_display_icc_profile(info.primary, profile_name, dcValid, icm,
                                          enumRes, assocOk)
         IN  [ok |-> r.ok, profiles |-> r.profiles, calls |-> info.calls \o r.calls,
              iccCalls |-> r.iccCalls]
    ELSE [ok |-> FALSE, profiles |-> <<>>, calls |-> info.calls, iccCalls |-> <<>>]

(***************************************************************************)
(* Inputs of the operations.                                               *)
(***************************************************************************)
\* the modes a device of the full model reports, and the modes requested
CatalogModes == {Mode(1920, 1080, 120), Mode(1920, 1080, 60)}
RequestedModes == CatalogModes \cup {Mode(1280, 1080, 120)}
ModeLists == SeqsUpTo(CatalogModes, MaxModes)
\* the levels requested in the full model: the ends of the range and beyond
SdrLevelSamples == {0, 1, MaxSdrLevel} \cup (MaxSdrLevel + 1 .. MaxSdrLevel + LevelsAbove)
SdrLevels == 0 .. MaxSdrLevel + LevelsAbove
IccPaths == {<<"C:", "color", "a.icc">>, <<"D:", "a.icc">>, <<"C:", "color", "b.icc">>}
IccLists == SeqsUpTo(IccPaths, MaxProfiles)
ProfileNames == {"a.icc", "c.icc"}
\* EnumICMProfilesW: -1 no profile, 0 interrupted, 1 the callback's last answer
EnumIcmResults(icm) == IF Len(icm) = 0 THEN {-1, 0} ELSE {0, 1}

NoArgs ==
    [width |-> 0, height |-> 0, refresh_rate |-> 0, unsafe_mode |-> FALSE,
     level |-> 0, profile_name |-> ""]

Init ==
    /\ legacy \in LegacyLists
    /\ paths \in PathLists
    /\ op = "none"
    /\ args = NoArgs
    /\ ret = FALSE
    /\ displays = <<>>
    /\ reported = <<>>
    /\ modes = <<>>
    /\ profiles = <<>>
    /\ calls = <<>>
    /\ modeCalls = <<>>
    /\ sdrCalls = <<>>
    /\ iccCalls = <<>>
    /\ exitCode = 0

\* main.rs lines 262-288: std::process::exit(1) in the Err arms of set-sdr-level
\* and set-icc-profile; every other arm falls off the end of main
exit_status(command, ok) ==
    IF command \in {"set_primary_display_sdr_white", "change_primary_display_icc_profile"} /\ ~ok
    THEN 1 ELSE 0

\* main.rs lines 170-180: one process runs one command and exits
Started == op = "none"

\* what an invocation leaves: every field of the record is written
Invoked(name, a, r, ds, rep, ms, ps, cs, mc, sc, ic) ==
    /\ op' = name
    /\ args' = a
    /\ ret' = r
    /\ displays' = ds
    /\ reported' = rep
    /\ modes' = ms
    /\ profiles' = ps
    /\ calls' = cs
    /\ modeCalls' = mc
    /\ sdrCalls' = sc
    /\ iccCalls' = ic
    /\ exitCode' = exit_status(name, r)
    /\ UNCHANGED <<legacy, paths>>

BufResults == {ERROR_SUCCESS, ERROR_GEN_FAILURE}
\* the answers that matter once the buffer-size query has failed or not
QdcResults(bufRes) == IF bufRes = ERROR_SUCCESS THEN QueryResults ELSE {ERROR_SUCCESS}

\* main.rs lines 186-188: test enumerate-displays
EnumerateDisplays ==
    /\ Started
    /\ \E bufRes \in BufResults :
         \E qdcRes \in QdcResults(bufRes) :
           LET e == enumerate_displays(legacy, paths, bufRes, qdcRes) IN
           Invoked("enumerate_displays", NoArgs, TRUE, e.displays, <<>>, <<>>, <<>>,
                   e.calls, <<>>, <<>>, <<>>)

\* DisplayDevice::get_supported_modes on a device whose mode list is os_modes
GetSupportedModes ==
    /\ Started
    /\ \E os_modes \in SeqsUpTo(DisplayModes, MaxReported) :
           Invoked("get_supported_modes", NoArgs, TRUE, <<>>, os_modes,
                   get_supported_modes(os_modes), <<>>, SupportedModesCalls(os_modes),
                   <<>>, <<>>, <<>>)

\* the mode lists the OS may report to get_primary_display_info: the list is
\* read only when the enumeration finds a primary device
ReportedLists(bufRes, qdcRes) ==
    IF FindPrimary(enumerate_displays(legacy, paths, bufRes, qdcRes).displays) # 0
    THEN ModeLists ELSE {<<>>}

\* main.rs lines 212-213: test primary-display-modes
GetPrimaryDisplayInfo ==
    /\ Started
    /\ \E bufRes \in BufResults :
         \E qdcRes \in QdcResults(bufRes) :
           \E os_modes \in ReportedLists(bufRes, qdcRes) :
             LET info == get_primary_display_info(legacy, paths, bufRes, qdcRes, os_modes) IN
             Invoked("get_primary_display_info", NoArgs, info.found, info.displays,
                     info.reported, info.modes, <<>>, info.calls, <<>>, <<>>, <<>>)

\* main.rs lines 262-264: change-primary-display-mode
ChangePrimaryDisplayMode ==
    /\ Started
    /\ \E bufRes \in BufResults :
         \E qdcRes \in QdcResults(bufRes) :
           \E os_modes \in ReportedLists(bufRes, qdcRes) :
             LET info == get_primary_display_info(legacy, paths, bufRes, qdcRes, os_modes) IN
             \E m \in RequestedModes, unsafe_mode \in BOOLEAN :
               \E cdsRes \in IF info.found /\ ModeAccepted(unsafe_mode, info.modes, m.width,
                                                          m.height, m.refresh_rate)
                             THEN DispChangeResults ELSE {DISP_CHANGE_SUCCESSFUL} :
                 LET r == change_primary_display_mode(m.width, m.height, m.refresh_rate,
                                                      unsafe_mode, info, cdsRes)
                 IN  Invoked("change_primary_display_mode",
                             [NoArgs EXCEPT !.width = m.width, !.height = m.height,
                                            !.refresh_rate = m.refresh_rate,
                                            !.unsafe_mode = unsafe_mode],
                             r.ok, info.displays, info.reported, info.modes, <<>>, info.calls,
                             r.modeCalls, <<>>, <<>>)

\* main.rs lines 270-271: set-sdr-level, levels drawn from the set given
SetPrimaryDisplaySdrWhite(levels) ==
    /\ Started
    /\ \E level \in levels :
         \E bufRes \in IF LevelRejected(level) THEN {ERROR_SUCCESS} ELSE BufResults :
           \E qdcRes \in IF LevelRejected(level) THEN {ERROR_SUCCESS} ELSE QdcResults(bufRes) :
             \E qdcRes2 \in IF qdcRes = ERROR_INSUFFICIENT_BUFFER THEN QueryResults
                            ELSE {ERROR_SUCCESS} :
               \E setRes \in {ERROR_SUCCESS, ERROR_GEN_FAILURE} :
                 LET r == set_primary_display_sdr_white(level, legacy, paths, bufRes, qdcRes,
                                                        qdcRes2, setRes)
                 IN  Invoked("set_primary_display_sdr_white", [NoArgs EXCEPT !.level = level],
                             r.ok, <<>>, <<>>, <<>>, <<>>, r.calls, <<>>, r.sdrCalls, <<>>)

\* main.rs lines 279-281: set-icc-profile
ChangePrimaryDisplayIccProfile ==
    /\ Started
    /\ \E bufRes \in BufResults :
         \E qdcRes \in QdcResults(bufRes) :
           \E os_modes \in ReportedLists(bufRes, qdcRes) :
             LET info == get_primary_display_info(legacy, paths, bufRes, qdcRes, os_modes) IN
             \E profile_name \in ProfileNames, dcValid \in IF info.found THEN BOOLEAN ELSE {TRUE} :
               \E icm \in IF info.found /\ dcValid THEN IccLists ELSE {<<>>} :
                 \E enumRes \in IF info.found /\ dcValid THEN EnumIcmResults(icm) ELSE {-1} :
                   \E assocOk \in IF FindProfile(enum_profiles_callback(icm, 1),
                                                 profile_name) # 0 /\ info.found /\ dcValid
                                  THEN BOOLEAN ELSE {TRUE} :
                     LET r == change_primary_display_icc_profile(profile_name, info, dcValid,
                                                                 icm, enumRes, assocOk)
                     IN  Invoked("change_primary_display_icc_profile",
                                 [NoArgs EXCEPT !.profile_name = profile_name],
                                 r.ok, info.displays, info.reported, info.modes, r.profiles,
                                 r.calls, <<>>, <<>>, r.iccCalls)

Next ==
    \/ EnumerateDisplays
    \/ GetPrimaryDisplayInfo
    \/ ChangePrimaryDisplayMode
    \/ SetPrimaryDisplaySdrWhite(SdrLevelSamples)
    \/ ChangePrimaryDisplayIccProfile

Spec == Init /\ [][Next]_vars

\* get_supported_modes over the mode lists a device may report; it reads
\* nothing of the topology
InitModes == Init /\ legacy = <<>> /\ paths = <<>>
NextModes == GetSupportedModes
SpecModes == InitModes /\ [][NextModes]_vars

\* the SDR white level over the whole range of levels, on the topologies of
\* at most one port and one path
InitSdr == Init /\ Len(legacy) <= 1 /\ Len(paths) <= 1
NextSdr == SetPrimaryDisplaySdrWhite(SdrLevels)
SpecSdr == InitSdr /\ [][NextSdr]_vars

(***************************************************************************)
(* Properties.                                                             *)
(***************************************************************************)
\* the invocation ran enumerate_displays of displays_info.rs and got its path list
EnumSucceeded ==
    /\ op \in {"enumerate_displays", "get_primary_display_info",
               "change_primary_display_mode", "change_primary_display_icc_profile"}
    /\ \E i \in 1 .. Len(calls) : calls[i] = Call("QueryDisplayConfig", ERROR_SUCCESS)
\* the invocation resolved a primary display
PrimaryResolved == \E i \in 1 .. Len(displays) : displays[i].is_primary
RequestedMode == Mode(args.width, args.height, args.refresh_rate)
InReported == \E i \in 1 .. Len(reported) : reported[i] = RequestedMode
NoMutation == modeCalls = <<>> /\ sdrCalls = <<>> /\ iccCalls = <<>>

\* C1: a validated mode change whose requested triple is not among the modes
\* the primary display reported in the invocation fails and makes no
\* ChangeDisplaySettingsExW call
C1_UnsupportedModeRejected ==
    (op = "change_primary_display_mode" /\ ~args.unsafe_mode /\ ~InReported)
        => (~ret /\ modeCalls = <<>>)

C1_Witness ==
    /\ op = "change_primary_display_mode"
    /\ ~args.unsafe_mode
    /\ PrimaryResolved
    /\ reported # <<>>
    /\ ~InReported
    /\ ~ret
    /\ modeCalls = <<>>

\* C2: with validation bypassed, a mode change that resolved a primary display
\* makes the ChangeDisplaySettingsExW call with the requested triple, whether
\* the triple is in the catalog or not
C2_UnsafeAlwaysCalls ==
    (op = "change_primary_display_mode" /\ args.unsafe_mode /\ PrimaryResolved)
        => /\ Len(modeCalls) = 1
           /\ Mode(modeCalls[1].width, modeCalls[1].height, modeCalls[1].refresh_rate)
                = RequestedMode

C2_Witness ==
    /\ op = "change_primary_display_mode"
    /\ args.unsafe_mode
    /\ PrimaryResolved
    /\ reported = <<>>
    /\ Len(modeCalls) = 1

\* C3: a level above 100 fails without any OS call
C3_LevelAbove100NoOsCall ==
    (op = "set_primary_display_sdr_white" /\ args.level > 100)
        => (~ret /\ calls = <<>> /\ NoMutation)

C3_Witness ==
    /\ op = "set_primary_display_sdr_white"
    /\ args.level = 101
    /\ PrimaryPorts(legacy) # {}
    /\ paths # <<>>
    /\ ~ret
    /\ calls = <<>>

\* C4: every DisplayConfigSetDeviceInfo request carries 1000 + level * 50 for
\* a level of 0..100, a value in 1000..6000, and the final-value flag
C4_ApiValue ==
    (op = "set_primary_display_sdr_white" /\ sdrCalls # <<>>)
        => /\ args.level \in 0 .. 100
           /\ sdrCalls[1].sdr_white_level = 1000 + args.level * 50
           /\ sdrCalls[1].sdr_white_level \in 1000 .. 6000
           /\ (args.level = 0 => sdrCalls[1].sdr_white_level = 1000)
           /\ (args.level = 100 => sdrCalls[1].sdr_white_level = 6000)
           /\ sdrCalls[1].final_value = 1

C4_Witness ==
    /\ op = "set_primary_display_sdr_white"
    /\ args.level = 100
    /\ Len(sdrCalls) = 1
    /\ sdrCalls[1].sdr_white_level = 6000

\* C5: when no profile listed for the device has the requested name, the
\* association fails and ColorProfileSetDisplayDefaultAssociation is not called
C5_ProfileNotFound ==
    (/\ op = "change_primary_display_icc_profile"
     /\ ~\E i \in 1 .. Len(profiles) : profiles[i].name = args.profile_name)
        => (~ret /\ iccCalls = <<>>)

C5_Witness ==
    /\ op = "change_primary_display_icc_profile"
    /\ PrimaryResolved
    /\ profiles # <<>>
    /\ \A i \in 1 .. Len(profiles) : profiles[i].name # args.profile_name
    /\ ~ret
    /\ iccCalls = <<>>

\* C6: when no legacy port carries the primary flag, the mode change, the SDR
\* white level and the ICC profile change fail and make no mutation call
C6_NoPrimaryFailsCleanly ==
    (/\ PrimaryPorts(legacy) = {}
     /\ op \in {"change_primary_display_mode", "set_primary_display_sdr_white",
                "change_primary_display_icc_profile"})
        => (~ret /\ NoMutation)

C6_Witness ==
    /\ PrimaryPorts(legacy) = {}
    /\ op = "change_primary_display_mode"
    /\ args.unsafe_mode
    /\ displays # <<>>
    /\ ~ret
    /\ NoMutation

\* C7: a list returned by enumerate_displays holds at most one primary device
C7_AtMostOnePrimary ==
    Cardinality({i \in 1 .. Len(displays) : displays[i].is_primary}) <= 1

C7_Witness ==
    /\ op = "enumerate_displays"
    /\ Len(displays) = 2
    /\ Cardinality({i \in 1 .. Len(displays) : displays[i].is_primary}) = 1

\* C8: get_supported_modes returns no triple twice and a sequence strictly
\* descending by width, then height, then refresh rate
StrictlyAbove(a, b) ==
    \/ a.width > b.width
    \/ a.width = b.width /\ a.height > b.height
    \/ a.width = b.width /\ a.height = b.height /\ a.refresh_rate > b.refresh_rate

C8_ModesSortedDistinct ==
    /\ \A i, j \in 1 .. Len(modes) : i # j => modes[i] # modes[j]
    /\ \A i \in 1 .. Len(modes) - 1 : StrictlyAbove(modes[i], modes[i + 1])

C8_Witness ==
    /\ op = "get_supported_modes"
    /\ Len(reported) = 4
    /\ reported[1] = reported[3]
    /\ Len(modes) = 3
    /\ modes[1].width = modes[2].width
    /\ modes[1].height > modes[2].height
    /\ modes[1].refresh_rate < modes[2].refresh_rate

\* C9: no record of enumerate_displays has state_flags = 0, no port without
\* flags is in the result, and the attached ports after such a port whose
\* settings query succeeds are in it
C9_UnattachedExcluded ==
    /\ \A i \in 1 .. Len(displays) :
         /\ displays[i].state_flags # 0
         /\ legacy[displays[i].device_index + 1].flags # 0
    /\ EnumSucceeded =>
         \A p, q \in 1 .. Len(legacy) :
            (p < q /\ legacy[p].flags = 0 /\ legacy[q].flags # 0 /\ legacy[q].settingsOk)
                => \E i \in 1 .. Len(displays) : displays[i].device_index = q - 1

C9_Witness ==
    /\ op = "enumerate_displays"
    /\ Len(legacy) = 2
    /\ legacy[1].flags = 0
    /\ Len(displays) = 1
    /\ displays[1].device_index = 1

\* C10: a mode change makes at most one ChangeDisplaySettingsExW call, and
\* once it made the call it succeeds exactly when the OS answered Successful
C10_ResultFollowsOsCode ==
    /\ Len(modeCalls) <= 1
    /\ (op = "change_primary_display_mode" /\ modeCalls # <<>>)
         => (ret <=> modeCalls[1].res = DISP_CHANGE_SUCCESSFUL)
    /\ (op = "change_primary_display_mode" /\ modeCalls # <<>>
        /\ modeCalls[1].res \in {DISP_CHANGE_BADMODE, DISP_CHANGE_FAILED,
                                 DISP_CHANGE_RESTART, DISP_CHANGE_NOTUPDATED})
         => ~ret

C10_Witness ==
    /\ op = "change_primary_display_mode"
    /\ Len(modeCalls) = 1
    /\ modeCalls[1].res = DISP_CHANGE_RESTART
    /\ ~ret

\* C11: a mutating subcommand whose operation failed ends with a nonzero exit
\* status, and one that ends with status 0 succeeded
C11_FailureExitsNonzero ==
    op \in {"change_primary_display_mode", "set_primary_display_sdr_white",
            "change_primary_display_icc_profile"}
        => (ret <=> exitCode = 0)

\* the operations that run enumerate_displays of displays_info.rs
EnumOps ==
    {"enumerate_displays", "get_primary_display_info", "change_primary_display_mode",
     "change_primary_display_icc_profile"}
\* the positions of the calls of an API in the call log
CallsOf(api) == {i \in 1 .. Len(calls) : calls[i].api = api}
\* a configuration query of the invocation answered a non-success code
QueryFailed ==
    \E i \in CallsOf("GetDisplayConfigBufferSizes") \cup CallsOf("QueryDisplayConfig") :
        calls[i].res # ERROR_SUCCESS

\* C12: enumerate_displays returns a list in every case, and when the
\* buffer-size query or the path query answers a non-success code the list is
\* empty and no legacy port was enumerated
C12_QueryFailureGivesEmptyList ==
    /\ op = "enumerate_displays" => ret
    /\ (op \in EnumOps /\ QueryFailed)
         => /\ displays = <<>>
            /\ CallsOf("EnumDisplayDevicesW") = {}
            /\ CallsOf("EnumDisplaySettingsW") = {}

C12_Witness ==
    /\ op = "enumerate_displays"
    /\ \E i \in CallsOf("QueryDisplayConfig") : calls[i].res = ERROR_GEN_FAILURE
    /\ \E p \in 1 .. Len(legacy) : legacy[p].flags # 0 /\ legacy[p].settingsOk
    /\ displays = <<>>
    /\ ret

\* C13: a path query answered "insufficient buffer" is reissued exactly once,
\* the query is issued at most twice, and a second answer that is not success
\* fails the enumeration, in displays_info.rs as in set_sdr_level.rs
C13_RetryOnce ==
    LET q == CallsOf("QueryDisplayConfig") IN
    /\ Cardinality(q) <= 2
    /\ (\E i \in q : calls[i].res = ERROR_INSUFFICIENT_BUFFER /\ \A j \in q : i <= j)
         => Cardinality(q) = 2
    /\ (\E i, j \in q : i < j /\ calls[j].res # ERROR_SUCCESS)
         => (displays = <<>> /\ sdrCalls = <<>>)

\* C16: an attached port whose current-settings query fails is not in the
\* result, and every attached port whose query succeeds is, under its own
\* legacy index
C16_SettingsFailureSkipped ==
    (op \in EnumOps /\ ~QueryFailed /\ op # "none")
        => /\ \A p \in 1 .. Len(legacy) :
                (legacy[p].flags # 0 /\ ~legacy[p].settingsOk)
                    => ~\E i \in 1 .. Len(displays) : displays[i].device_index = p - 1
           /\ \A p \in 1 .. Len(legacy) :
                (legacy[p].flags # 0 /\ legacy[p].settingsOk)
                    => \E i \in 1 .. Len(displays) :
                          /\ displays[i].device_index = p - 1
                          /\ displays[i].state_flags = legacy[p].flags

C16_Witness ==
    /\ op = "enumerate_displays"
    /\ Len(legacy) = 2
    /\ legacy[1].flags # 0 /\ ~legacy[1].settingsOk
    /\ legacy[2].flags # 0 /\ legacy[2].settingsOk
    /\ Len(displays) = 1
    /\ displays[1].device_index = 1

\* C14 as stated: a record whose legacy index lies within the path list has
\* the adapter and source id of the path at that position
C14_KeyedByPosition ==
    \A i \in 1 .. Len(displays) :
        displays[i].device_index < Len(paths)
            => /\ displays[i].adapter_id = paths[displays[i].device_index + 1].adapterId
               /\ displays[i].source_id = paths[displays[i].device_index + 1].srcId

\* the positions of the paths whose source id is the legacy index given
PathsOfSource(device_index) == {k \in 1 .. Len(paths) : paths[k].srcId = device_index}

\* C14, amended: a record whose legacy index is the source id of some path has
\* the adapter and source id of the first such path, wherever it stands in
\* the path list
C14_KeyedBySourceId ==
    \A i \in 1 .. Len(displays) :
        LET ks == PathsOfSource(displays[i].device_index) IN
        ks # {} =>
            LET k == CHOOSE k \in ks : \A j \in ks : k <= j IN
            /\ displays[i].adapter_id = paths[k].adapterId
            /\ displays[i].source_id = paths[k].srcId
            /\ displays[i].source_id = displays[i].device_index

C14_Witness ==
    /\ op = "enumerate_displays"
    /\ Len(paths) = 2
    /\ paths[1].srcId = 1
    /\ paths[2].srcId = 0
    /\ \E i \in 1 .. Len(displays) :
          /\ displays[i].device_index = 0
          /\ displays[i].source_id = 0
          /\ displays[i].adapter_id = paths[2].adapterId

\* the legacy port a path belongs to: source id s of the adapter is the GDI
\* device \\.\DISPLAY<s + 1>, the port of legacy index s (the correspondence
\* displays_info.rs line 212 assumes)
PathOwner(path) == path.srcId + 1

\* C15: the DisplayConfigSetDeviceInfo request names the target of a path that
\* belongs to the primary display
C15_TargetsPrimaryPath ==
    (op = "set_primary_display_sdr_white" /\ sdrCalls # <<>>)
        => \E k \in 1 .. Len(paths) :
              /\ sdrCalls[1].adapterId = paths[k].adapterId
              /\ sdrCalls[1].id = paths[k].tgtId
              /\ PathOwner(paths[k]) \in PrimaryPorts(legacy)

\* device contexts open after the first n calls of the log: one more for each
\* successful CreateDCW, one less for each DeleteDC
RECURSIVE OpenContexts(_)
OpenContexts(n) ==
    IF n = 0 THEN 0
    ELSE OpenContexts(n - 1)
         + (IF calls[n] = Call("CreateDCW", 1) THEN 1 ELSE 0)
         - (IF calls[n].api = "DeleteDC" THEN 1 ELSE 0)

\* C17: in the ICC listing every successfully opened device context is released
\* exactly once before the listing returns, whatever EnumICMProfilesW answered:
\* none is open at the end, and none is released that is not open
C17_ContextReleasedOnce ==
    op = "change_primary_display_icc_profile"
        => /\ OpenContexts(Len(calls)) = 0
           /\ \A n \in 0 .. Len(calls) : OpenContexts(n) \in {0, 1}
           /\ Cardinality(CallsOf("DeleteDC"))
                  = Cardinality({n \in CallsOf("CreateDCW") : calls[n].res = 1})

C17_Witness ==
    /\ op = "change_primary_display_icc_profile"
    /\ Call("EnumICMProfilesW", 0) \in {calls[n] : n \in 1 .. Len(calls)}
    /\ profiles # <<>>
    /\ Cardinality(CallsOf("DeleteDC")) = 1

\* an SDR invocation with an accepted level whose path query succeeded
SdrPathsRead ==
    /\ op = "set_primary_display_sdr_white"
    /\ ~LevelRejected(args.level)
    /\ \E i \in CallsOf("QueryDisplayConfig") : calls[i].res = ERROR_SUCCESS

\* the Device Enumerator's answer for the same topology, its queries succeeding
EnumeratorFindsPrimary ==
    get_primary_display_info(legacy, paths, ERROR_SUCCESS, ERROR_SUCCESS, <<>>).found

\* C18 as stated: the SDR component finds a primary path exactly when
\* get_primary_display_info returns a primary device for the same OS state
C18_ResolutionsAgree ==
    SdrPathsRead => ((sdrCalls # <<>>) <=> EnumeratorFindsPrimary)

\* C18, amended: the SDR mutation is issued exactly when the path list is not
\* empty and some legacy device carries the primary flag; the Device Enumerator
\* reports a primary exactly when such a device also answers its current-settings
\* query; so the two agree whenever the path list is not empty and the primary
\* device's settings query succeeds
C18_ResolutionsAgreeWhenSettingsRead ==
    SdrPathsRead =>
        /\ (sdrCalls # <<>>) <=> (paths # <<>> /\ PrimaryPorts(legacy) # {})
        /\ EnumeratorFindsPrimary <=> (\E p \in PrimaryPorts(legacy) : legacy[p].settingsOk)
        /\ (paths # <<>> /\ \A p \in PrimaryPorts(legacy) : legacy[p].settingsOk)
               => ((sdrCalls # <<>>) <=> EnumeratorFindsPrimary)

C18_Witness ==
    /\ SdrPathsRead
    /\ sdrCalls # <<>>
    /\ ~EnumeratorFindsPrimary
    /\ Len(legacy) = 2

\* C19: the default-association call carries the identity of an entry of the
\* path list read in the same invocation, never the zero adapter identity given
\* to a device without a path entry
C19_AssociationNamesAPath ==
    (op = "change_primary_display_icc_profile" /\ iccCalls # <<>>)
        => /\ iccCalls[1].adapter_id # ZeroLuid
           /\ \E k \in 1 .. Len(paths) :
                 /\ paths[k].adapterId = iccCalls[1].adapter_id
                 /\ paths[k].srcId = iccCalls[1].source_id

====
